---- MODULE Spec2Model ----
(***************************************************************************)
(* State machine of mcp_amadeus.client.AmadeusClient: one client instance  *)
(* (credentials and token slot), a wall clock, and callers that run        *)
(* request / delete_request (threads) or arequest / adelete_request        *)
(* (tasks of one event loop) against it.  Every step of a call that reads  *)
(* or writes the token slot, or talks to the network, is one action.       *)
(***************************************************************************)
EXTENDS Integers, Sequences, FiniteSets, TLC

\* ------------------------------------------------------------------ bounds

\* Calls begun over a behaviour, and clock advances over a behaviour.
MaxCalls == 2
MaxTicks == 2

\* Threads / tasks sharing the client.
Callers == {"c1", "c2"}

\* Seconds by which the clock may jump between two steps: their sums reach
\* both sides of the end of every cache window the provider's lifetimes
\* below give (0 | 1 and 1639 | 1640).
TickSteps == {1, 1639}

\* ------------------------------------------------------- program constants

\* client.py:57  timedelta(seconds=data.get("expires_in", 1700) - 60)
DefaultExpiresIn == 1700
SafetyMargin == 60
\* client.py:109, 125  response.status_code == 204
NoContent == 204

\* ----------------------------------------------------------- Python values

None == [none |-> TRUE]
Str(s) == [str |-> s]
Num(n) == [num |-> n]
\* A datetime, in whole seconds since the start of the behaviour.
At(t) == [at |-> t]

IsStr(v) == DOMAIN v = {"str"}
IsNum(v) == DOMAIN v = {"num"}

\* bool(v) as the conditions of client.py:29-31 and :39 take it.
Truthy(v) ==
    CASE v = None -> FALSE
      [] IsStr(v) -> v.str # ""
      [] IsNum(v) -> v.num # 0
      [] OTHER    -> TRUE

\* a or b with a taken whatever it is.
PyOr_KeepsFirst(a, b) == a

\* a or b
PyOr(a, b) == IF Truthy(a) THEN a ELSE b

\* A response body: text that encodes a JSON document, or text that does not.
Json(doc) == [encodes |-> doc]
Raw(text) == [raw |-> text]

\* httpx.Response.is_success, which raise_for_status() tests.
IsSuccess(status) == 200 <= status /\ status <= 299

\* response.json(): the decoded document, or JSONDecodeError.
ResponseJson(response) ==
    IF "encodes" \in DOMAIN response.body
    THEN [ok |-> TRUE, doc |-> response.body.encodes]
    ELSE [ok |-> FALSE, doc |-> None]

\* ------------------------------------------------------------- environment

\* AMADEUS_* variables of the process.
Environments ==
    { [set |-> TRUE, client_id |-> "env-id", client_secret |-> "env-secret"] }

\* Access tokens the provider issues (RFC 6749: never empty).
Tokens == {"tokA", "tokB"}

\* JSON values the provider may give "expires_in"; a string is malformed.
ExpiresInValues == {Num(60), Num(61), Str("1799")}

TokenDocs ==
    { [access_token |-> Str(t)] : t \in Tokens }
    \cup { [access_token |-> Str(t), expires_in |-> e] :
             t \in Tokens, e \in ExpiresInValues }
    \cup { [expires_in |-> Num(61)] }

TransportErrors == {"ConnectError", "ReadTimeout"}

\* What the POST of client.py:43 can come back with: a transport failure, a
\* 2xx reply with a document or with no JSON, a non-2xx reply.
TokenRepliesOf(docs, errors, statuses) ==
    { [failed |-> e] : e \in errors }
    \cup { [status |-> 200, body |-> Json(d)] : d \in docs }
    \cup { [status |-> 200, body |-> Raw("<html>")] }
    \cup { [status |-> s, body |-> b] :
             s \in statuses,
             b \in {Json([error |-> Str("invalid_client")]), Raw("Unavailable")} }

TokenReplies == TokenRepliesOf(TokenDocs, TransportErrors, {401, 500})

Methods == {"GET", "POST"}
Endpoint == "/v2/shopping/flight-offers"

\* What the business request of client.py:98 / :121 can come back with.
ApiRepliesOf(errors, statuses, bodies) ==
    { [failed |-> e] : e \in errors }
    \cup { [status |-> s, body |-> b] : s \in statuses, b \in bodies }

ApiReplies ==
    ApiRepliesOf(TransportErrors, {200, 204, 302, 404},
                 {Json([data |-> Str("d1")]), Raw("")})

\* The replies drawn while callers interleave: one of each outcome, with a
\* lifetime that leaves a cache window (61) and one that leaves none (60).
SharedTokenDocs ==
    { [access_token |-> Str(t), expires_in |-> e] :
        t \in Tokens, e \in {Num(60), Num(61)} }


SharedTokenReplies ==
    { [failed |-> "ConnectError"] }
    \cup { [status |-> 200, body |-> Json(d)] : d \in SharedTokenDocs }
    \cup { [status |-> 401, body |-> Raw("Unavailable")] }

SharedApiReplies ==
    ApiRepliesOf({"ConnectError"}, {200}, {Json([data |-> Str("d1")])})

\* ------------------------------------------------------------------- state

VARIABLES
    client_id, client_secret, base_url,   \* AmadeusClient credentials
    access_token, token_expiry,           \* AmadeusClient._access_token, ._token_expiry
    now, ticks,                           \* datetime.now(); clock advances so far
    calls,                                \* calls begun so far
    loop,                                 \* the task the event loop is running
    pc,                                   \* each caller's position in its call
    frame,                                \* each caller's arguments and locals
    obs,                                  \* history of each caller's current call
    origin,                               \* history: the calls that wrote the slot
    twin,                                 \* the token slot of a second AmadeusClient
    ops,                                  \* the endpoint operation in progress
    tools                                 \* the tool layers and their invocations

credentials == <<client_id, client_secret, base_url>>
slot == <<access_token, token_expiry>>
clock == <<now, ticks>>
aside == <<twin, ops, tools>>
vars == <<client_id, client_secret, base_url, access_token, token_expiry,
          now, ticks, calls, loop, pc, frame, obs, origin, twin, ops, tools>>

Kinds == {"request", "delete_request", "arequest", "adelete_request"}
IsAsync(kind) == kind \in {"arequest", "adelete_request"}
IsDelete(kind) == kind \in {"delete_request", "adelete_request"}

IdleFrame ==
    [id |-> 0, kind |-> "none", method |-> "none", endpoint |-> "none",
     token |-> None, data |-> None, result |-> None]

NoObs ==
    [check |-> "none", checked |-> None, handed |-> None, sent |-> <<>>,
     token_reply |-> None, api_reply |-> None, parsed |-> FALSE]

\* Which call wrote the token and which the expiry now in the slot (0: none),
\* when the expiry was written, and the "expires_in" of the document it was
\* computed from (None: the document had none).
NoOrigin == [token |-> 0, expiry |-> 0, at |-> 0, expires_in |-> None]

\* No endpoint operation has been called yet.
NoOp ==
    [name |-> "none", max_results |-> 0, args |-> None, stage |-> "idle",
     held |-> None, seen |-> <<>>, out |-> None]
NoOps == [cur |-> NoOp, first |-> None]

Layers == {"server", "langchain_tools"}

\* No tool is being invoked.
NoCall ==
    [layer |-> "none", tool |-> "none", args |-> <<>>, stage |-> "idle",
     made |-> 0, client |-> 0, out |-> None]

\* server.py:28 and langchain_tools.py:16: no client is held by either layer
\* (instances are numbered from 1 as they are constructed; 0 is none).
NoTools ==
    [held |-> [l \in Layers |-> 0], built |-> [l \in Layers |-> 0],
     started |-> 0, call |-> [p \in Callers |-> NoCall]]

\* client.py:32-33: the slot of a client just constructed.
EmptySlot == [access_token |-> None, token_expiry |-> None]

\* config.py:13-18: the Settings fields and their defaults.
Settings(env) ==
    [client_id |-> IF env.set THEN env.client_id ELSE "",
     client_secret |-> IF env.set THEN env.client_secret ELSE "",
     base_url |-> "https://test.api.amadeus.com"]

\* Arguments AmadeusClient(...) is constructed with (server.py:34 gives none).
CtorArgs == { [client_id |-> None, client_secret |-> None, base_url |-> None] }

\* client.py:22-33  AmadeusClient.__init__ in the given environment, and the
\* callers and the clock at that moment.
Construct(env, args) ==
    LET settings == Settings(env) IN
    /\ client_id = PyOr(args.client_id, Str(settings.client_id))
    /\ client_secret = PyOr(args.client_secret, Str(settings.client_secret))
    /\ base_url = PyOr(args.base_url, Str(settings.base_url))
    /\ access_token = None
    /\ token_expiry = None
    /\ now = 0
    /\ ticks = 0
    /\ calls = 0
    /\ loop = "free"
    /\ pc = [p \in Callers |-> "idle"]
    /\ frame = [p \in Callers |-> IdleFrame]
    /\ obs = [p \in Callers |-> NoObs]
    /\ origin = NoOrigin
    /\ twin = EmptySlot

Init ==
    /\ \E env \in Environments, args \in CtorArgs : Construct(env, args)
    /\ ops = NoOps
    /\ tools = NoTools

\* The process with no AMADEUS_* variable set, and the constructor called
\* with a blank client_id.
BlankEnvironments == { [set |-> FALSE, client_id |-> "", client_secret |-> ""] }
BlankCtorArgs == { [client_id |-> Str(""), client_secret |-> None, base_url |-> None] }

ConfigInit ==
    /\ \E env \in Environments \cup BlankEnvironments,
          args \in CtorArgs \cup BlankCtorArgs : Construct(env, args)
    /\ ops = NoOps
    /\ tools = NoTools

\* --------------------------------------------------------------- scheduling

\* A task runs only while no other task holds the event loop; a thread runs
\* whenever it is scheduled.
Runnable(p) == IsAsync(frame[p].kind) => loop \in {"free", p}
\* The loop after a step that goes on without awaiting, and after one that
\* ends in an await, a return or a raise.
Hold(p) == IF IsAsync(frame[p].kind) THEN p ELSE loop
Yield(p) == IF loop = p THEN "free" ELSE loop

\* The call of p ends raising err.
Raise(p, err) ==
    /\ pc' = [pc EXCEPT ![p] = "done"]
    /\ frame' = [frame EXCEPT ![p].result = [raised |-> err]]
    /\ loop' = Yield(p)

\* The call of p ends returning value.
Return(p, value) ==
    /\ pc' = [pc EXCEPT ![p] = "done"]
    /\ frame' = [frame EXCEPT ![p].result = [returned |-> value]]
    /\ loop' = Yield(p)

\* ----------------------------------------------------------- Token Manager

\* The cache test with the comparison turned round.
CacheValid_Reversed(token, expiry, t) ==
    /\ Truthy(token)
    /\ Truthy(expiry)
    /\ t > expiry.at

\* The cache test without the comparison.
CacheValid_IgnoresExpiry(token, expiry, t) ==
    /\ Truthy(token)
    /\ Truthy(expiry)

\* The cache test that still serves the token at its expiry.
CacheValid_AtExpiry(token, expiry, t) ==
    /\ Truthy(token)
    /\ Truthy(expiry)
    /\ t <= expiry.at

\* client.py:39 / :63  the cache test
\*   self._access_token and self._token_expiry and datetime.now() < self._token_expiry
CacheValid(token, expiry, t) ==
    /\ Truthy(token)
    /\ Truthy(expiry)
    /\ t < expiry.at

\* client.py:43-51 / :67-75  the request for a token
TokenRequest(url, id, secret) ==
    [method |-> "POST",
     url |-> url.str \o "/v1/security/oauth2/token",
     headers |-> ("Content-Type" :> "application/x-www-form-urlencoded"),
     data |-> [grant_type |-> "client_credentials",
               client_id |-> id.str, client_secret |-> secret.str]]

HTTPStatusError(reply) ==
    [exc |-> "HTTPStatusError", status |-> reply.status, body |-> reply.body]

\* The token reply read without raise_for_status().
ReadTokenResponse_NoRaise(reply) ==
    IF "failed" \in DOMAIN reply
    THEN [raised |-> [exc |-> reply.failed]]
    ELSE LET j == ResponseJson(reply) IN
         IF j.ok THEN [data |-> j.doc]
         ELSE [raised |-> [exc |-> "JSONDecodeError"]]

\* client.py:43-53 / :67-77  post, raise_for_status(), json(): the document
\* of the reply, or the error raised.
ReadTokenResponse(reply) ==
    IF "failed" \in DOMAIN reply
    THEN [raised |-> [exc |-> reply.failed]]
    ELSE IF ~IsSuccess(reply.status)
    THEN [raised |-> HTTPStatusError(reply)]
    ELSE LET j == ResponseJson(reply) IN
         IF j.ok THEN [data |-> j.doc]
         ELSE [raised |-> [exc |-> "JSONDecodeError"]]

\* client.py:57 / :81  data.get("expires_in", 1700)
ExpiresIn(data) ==
    IF "expires_in" \in DOMAIN data THEN data.expires_in
    ELSE Num(DefaultExpiresIn)

\* The expiry without the safety margin.
NewExpiry_NoMargin(t, data) ==
    LET e == ExpiresIn(data) IN
    IF IsNum(e) THEN [ok |-> TRUE, value |-> At(t + e.num)]
    ELSE [ok |-> FALSE, value |-> None]

\* The expiry never set earlier than one second ahead.
NewExpiry_OneAhead(t, data) ==
    LET e == ExpiresIn(data) IN
    IF IsNum(e)
    THEN [ok |-> TRUE,
          value |-> At(t + (IF e.num - SafetyMargin < 1 THEN 1 ELSE e.num - SafetyMargin))]
    ELSE [ok |-> FALSE, value |-> None]

\* client.py:56-58 / :80-82  datetime.now() + timedelta(seconds=... - 60),
\* a TypeError when expires_in is no number.
NewExpiry(t, data) ==
    LET e == ExpiresIn(data) IN
    IF IsNum(e) THEN [ok |-> TRUE, value |-> At(t + (e.num - SafetyMargin))]
    ELSE [ok |-> FALSE, value |-> None]

\* ---------------------------------------------------------- Request executor

\* The headers with the bare token as Authorization.
RequestHeaders_NoBearer(token) ==
    ("Authorization" :> token.str) @@ ("Content-Type" :> "application/json")

\* client.py:103-106 / :148-151
RequestHeaders(token) ==
    ("Authorization" :> ("Bearer " \o token.str))
    @@ ("Content-Type" :> "application/json")

\* client.py:123 / :168
DeleteHeaders(token) ==
    ("Authorization" :> ("Bearer " \o token.str))

\* The business request with Content-Type left out on the async path.
ApiRequest_AsyncBare(kind, method, endpoint, url, token) ==
    [method |-> IF IsDelete(kind) THEN "DELETE" ELSE method,
     url |-> url.str \o endpoint,
     headers |-> IF IsDelete(kind) \/ IsAsync(kind) THEN DeleteHeaders(token)
                 ELSE RequestHeaders(token)]

\* client.py:98-107, :121-124, :143-152, :166-169  the business request
ApiRequest(kind, method, endpoint, url, token) ==
    [method |-> IF IsDelete(kind) THEN "DELETE" ELSE method,
     url |-> url.str \o endpoint,
     headers |-> IF IsDelete(kind) THEN DeleteHeaders(token)
                 ELSE RequestHeaders(token)]

\* {}
EmptyDict == [k \in {} |-> k]

\* The reply read without the 204 case.
ReadResponse_Parses204(reply) ==
    IF "failed" \in DOMAIN reply
    THEN [raised |-> [exc |-> reply.failed], parsed |-> FALSE]
    ELSE IF ~IsSuccess(reply.status)
    THEN [raised |-> HTTPStatusError(reply), parsed |-> FALSE]
    ELSE LET j == ResponseJson(reply) IN
         IF j.ok THEN [returned |-> j.doc, parsed |-> TRUE]
         ELSE [raised |-> [exc |-> "JSONDecodeError"], parsed |-> TRUE]

\* The reply read with json() before raise_for_status().
ReadResponse_ParsesFirst(reply) ==
    IF "failed" \in DOMAIN reply
    THEN [raised |-> [exc |-> reply.failed], parsed |-> FALSE]
    ELSE IF reply.status = NoContent
    THEN [returned |-> EmptyDict, parsed |-> FALSE]
    ELSE LET j == ResponseJson(reply) IN
         IF ~j.ok THEN [raised |-> [exc |-> "JSONDecodeError"], parsed |-> TRUE]
         ELSE IF ~IsSuccess(reply.status)
         THEN [raised |-> HTTPStatusError(reply), parsed |-> TRUE]
         ELSE [returned |-> j.doc, parsed |-> TRUE]

\* client.py:98-111 / :143-156  request, raise_for_status(), 204, json()
ReadResponse(reply) ==
    IF "failed" \in DOMAIN reply
    THEN [raised |-> [exc |-> reply.failed], parsed |-> FALSE]
    ELSE IF ~IsSuccess(reply.status)
    THEN [raised |-> HTTPStatusError(reply), parsed |-> FALSE]
    ELSE IF reply.status = NoContent
    THEN [returned |-> EmptyDict, parsed |-> FALSE]
    ELSE LET j == ResponseJson(reply) IN
         IF j.ok THEN [returned |-> j.doc, parsed |-> TRUE]
         ELSE [raised |-> [exc |-> "JSONDecodeError"], parsed |-> TRUE]

\* The reply to a DELETE with every success reported as {status: success}.
ReadDeleteResponse_Wraps(reply) ==
    IF "failed" \in DOMAIN reply
    THEN [raised |-> [exc |-> reply.failed], parsed |-> FALSE]
    ELSE IF ~IsSuccess(reply.status)
    THEN [raised |-> HTTPStatusError(reply), parsed |-> FALSE]
    ELSE [returned |-> [status |-> Str("success")], parsed |-> FALSE]

\* client.py:121-128 / :166-173  delete, 204, raise_for_status(), json()
ReadDeleteResponse(reply) ==
    IF "failed" \in DOMAIN reply
    THEN [raised |-> [exc |-> reply.failed], parsed |-> FALSE]
    ELSE IF reply.status = NoContent
    THEN [returned |-> [status |-> Str("success")], parsed |-> FALSE]
    ELSE IF ~IsSuccess(reply.status)
    THEN [raised |-> HTTPStatusError(reply), parsed |-> FALSE]
    ELSE LET j == ResponseJson(reply) IN
         IF j.ok THEN [returned |-> j.doc, parsed |-> TRUE]
         ELSE [raised |-> [exc |-> "JSONDecodeError"], parsed |-> TRUE]

\* ----------------------------------------------------------------- actions

\* A caller enters request / delete_request / arequest / adelete_request.
BeginAt(p, kind, method, endpoint) ==
    /\ pc[p] = "idle"
    /\ calls' = calls + 1
    /\ pc' = [pc EXCEPT ![p] = "check"]
    /\ frame' = [frame EXCEPT ![p] =
                    [IdleFrame EXCEPT !.id = calls + 1, !.kind = kind,
                                      !.method = method, !.endpoint = endpoint]]
    /\ obs' = [obs EXCEPT ![p] = NoObs]
    /\ UNCHANGED <<credentials, slot, clock, loop, origin>>

\* A caller calls one of the four request methods directly.
Begin(p, kind, method) ==
    /\ calls < MaxCalls
    /\ BeginAt(p, kind, method, Endpoint)
    /\ UNCHANGED aside

\* client.py:39 / :63
CheckToken(p) ==
    /\ pc[p] = "check"
    /\ Runnable(p)
    /\ LET hit == CacheValid(access_token, token_expiry, now) IN
       /\ pc' = [pc EXCEPT ![p] = IF hit THEN "return_cached" ELSE "post"]
       /\ obs' = [obs EXCEPT
                    ![p].check = IF hit THEN "hit" ELSE "miss",
                    ![p].checked =
                        [at |-> now, token |-> access_token,
                         fresh |-> token_expiry # None /\ now < token_expiry.at]]
    /\ loop' = Hold(p)
    /\ UNCHANGED <<credentials, aside, slot, clock, calls, frame, origin>>

\* The Token Manager returns self._access_token to the request method; its
\* own locals are gone.
HandOver(p) ==
    /\ Runnable(p)
    /\ pc' = [pc EXCEPT ![p] = "send"]
    /\ frame' = [frame EXCEPT ![p].token = access_token, ![p].data = None]
    /\ obs' = [obs EXCEPT ![p].handed =
                  [token |-> access_token,
                   live |-> token_expiry # None /\ now < token_expiry.at]]
    /\ loop' = Hold(p)
    /\ UNCHANGED <<credentials, aside, slot, clock, calls, origin>>

\* client.py:40 / :64
ReturnCached(p) ==
    /\ pc[p] = "return_cached"
    /\ HandOver(p)

\* client.py:42-51 / :66-75  the POST leaves; the caller waits for the reply.
PostToken(p) ==
    /\ pc[p] = "post"
    /\ Runnable(p)
    /\ pc' = [pc EXCEPT ![p] = "token_wait"]
    /\ obs' = [obs EXCEPT ![p].sent =
                  Append(@, TokenRequest(base_url, client_id, client_secret))]
    /\ loop' = Yield(p)
    /\ UNCHANGED <<credentials, aside, slot, clock, calls, frame, origin>>

\* The reply handled with one more try after a transport failure.
TokenReply_Retries(p, reply) ==
    /\ pc[p] = "token_wait"
    /\ Runnable(p)
    /\ obs' = [obs EXCEPT ![p].token_reply = reply]
    /\ LET out == ReadTokenResponse(reply) IN
       IF "raised" \in DOMAIN out
       THEN IF "failed" \in DOMAIN reply /\ Len(obs[p].sent) < 2
            THEN /\ pc' = [pc EXCEPT ![p] = "post"]
                 /\ loop' = Hold(p)
                 /\ UNCHANGED frame
            ELSE Raise(p, out.raised)
       ELSE /\ pc' = [pc EXCEPT ![p] = "store_token"]
            /\ frame' = [frame EXCEPT ![p].data = out.data]
            /\ loop' = Hold(p)
    /\ UNCHANGED <<credentials, aside, slot, clock, calls, origin>>

\* client.py:43-53 / :67-77  the reply, or the transport's failure, arrives.
TokenReply(p, reply) ==
    /\ pc[p] = "token_wait"
    /\ Runnable(p)
    /\ obs' = [obs EXCEPT ![p].token_reply = reply]
    /\ LET out == ReadTokenResponse(reply) IN
       IF "raised" \in DOMAIN out
       THEN Raise(p, out.raised)
       ELSE /\ pc' = [pc EXCEPT ![p] = "store_token"]
            /\ frame' = [frame EXCEPT ![p].data = out.data]
            /\ loop' = Hold(p)
    /\ UNCHANGED <<credentials, aside, slot, clock, calls, origin>>

\* The token written only into an empty slot.
StoreToken_KeepsOld(p) ==
    /\ pc[p] = "store_token"
    /\ Runnable(p)
    /\ IF "access_token" \in DOMAIN frame[p].data
       THEN /\ access_token' = IF access_token = None
                               THEN frame[p].data.access_token
                               ELSE access_token
            /\ origin' = [origin EXCEPT !.token = frame[p].id]
            /\ pc' = [pc EXCEPT ![p] = "store_expiry"]
            /\ loop' = Hold(p)
            /\ UNCHANGED frame
       ELSE /\ Raise(p, [exc |-> "KeyError"])
            /\ UNCHANGED <<access_token, origin>>
    /\ UNCHANGED <<credentials, aside, token_expiry, clock, calls, obs>>

\* client.py:55 / :79  self._access_token = data["access_token"]
StoreToken(p) ==
    /\ pc[p] = "store_token"
    /\ Runnable(p)
    /\ IF "access_token" \in DOMAIN frame[p].data
       THEN /\ access_token' = frame[p].data.access_token
            /\ origin' = [origin EXCEPT !.token = frame[p].id]
            /\ pc' = [pc EXCEPT ![p] = "store_expiry"]
            /\ loop' = Hold(p)
            /\ UNCHANGED frame
       ELSE /\ Raise(p, [exc |-> "KeyError"])
            /\ UNCHANGED <<access_token, origin>>
    /\ UNCHANGED <<credentials, aside, token_expiry, clock, calls, obs>>

\* client.py:56-58 / :80-82  self._token_expiry = datetime.now() + timedelta(...)
StoreExpiry(p) ==
    /\ pc[p] = "store_expiry"
    /\ Runnable(p)
    /\ LET new == NewExpiry(now, frame[p].data) IN
       IF new.ok
       THEN /\ token_expiry' = new.value
            /\ origin' = [origin EXCEPT
                             !.expiry = frame[p].id, !.at = now,
                             !.expires_in =
                                 IF "expires_in" \in DOMAIN frame[p].data
                                 THEN frame[p].data.expires_in ELSE None]
            /\ pc' = [pc EXCEPT ![p] = "return_fresh"]
            /\ loop' = Hold(p)
            /\ UNCHANGED frame
       ELSE /\ Raise(p, [exc |-> "TypeError"])
            /\ UNCHANGED <<token_expiry, origin>>
    /\ UNCHANGED <<credentials, aside, access_token, clock, calls, obs>>

\* client.py:59 / :83
ReturnFresh(p) ==
    /\ pc[p] = "return_fresh"
    /\ HandOver(p)

\* client.py:97-107, :120-124, :142-152, :165-169  the business request
\* leaves; the caller waits for the reply.
Send(p) ==
    /\ pc[p] = "send"
    /\ Runnable(p)
    /\ pc' = [pc EXCEPT ![p] = "wait"]
    /\ obs' = [obs EXCEPT
                  ![p].token_reply = None,
                  ![p].sent = Append(@, ApiRequest(frame[p].kind, frame[p].method,
                                                   frame[p].endpoint, base_url,
                                                   frame[p].token))]
    /\ loop' = Yield(p)
    /\ UNCHANGED <<credentials, aside, slot, clock, calls, frame, origin>>

\* The reply handled with the stored token dropped on an error status.
Reply_DropsToken(p, reply) ==
    /\ pc[p] = "wait"
    /\ Runnable(p)
    /\ LET out == IF IsDelete(frame[p].kind) THEN ReadDeleteResponse(reply)
                  ELSE ReadResponse(reply) IN
       /\ obs' = [obs EXCEPT ![p].api_reply = reply, ![p].parsed = out.parsed]
       /\ IF "raised" \in DOMAIN out
          THEN Raise(p, out.raised)
          ELSE Return(p, out.returned)
    /\ access_token' = IF "status" \in DOMAIN reply /\ ~IsSuccess(reply.status)
                       THEN None ELSE access_token
    /\ UNCHANGED <<credentials, aside, token_expiry, clock, calls, origin>>

\* client.py:98-111, :121-128, :143-156, :166-173  the reply, or the
\* transport's failure, arrives and the call ends.
Reply(p, reply) ==
    /\ pc[p] = "wait"
    /\ Runnable(p)
    /\ LET out == IF IsDelete(frame[p].kind) THEN ReadDeleteResponse(reply)
                  ELSE ReadResponse(reply) IN
       /\ obs' = [obs EXCEPT ![p].api_reply = reply, ![p].parsed = out.parsed]
       /\ IF "raised" \in DOMAIN out
          THEN Raise(p, out.raised)
          ELSE Return(p, out.returned)
    /\ UNCHANGED <<credentials, aside, slot, clock, calls, origin>>

\* The caller has its result or its error and leaves the call.
FinishCall(p) ==
    /\ pc[p] = "done"
    /\ pc' = [pc EXCEPT ![p] = "idle"]
    /\ frame' = [frame EXCEPT ![p] = IdleFrame]
    /\ obs' = [obs EXCEPT ![p] = NoObs]
    /\ UNCHANGED <<credentials, slot, clock, calls, loop, origin>>

\* A caller that called the method directly leaves with what it got.
Finish(p) ==
    /\ FinishCall(p)
    /\ UNCHANGED aside

\* client.py:37-59 run on a second AmadeusClient (langchain_tools.py:19
\* constructs one beside the server's): its Token Manager reads and writes
\* the attributes of its own instance.
OtherClientCall(reply) ==
    /\ LET out == ReadTokenResponse(reply) IN
       twin' =
           IF CacheValid(twin.access_token, twin.token_expiry, now) THEN twin
           ELSE IF "raised" \in DOMAIN out THEN twin
           ELSE IF "access_token" \notin DOMAIN out.data THEN twin
           ELSE LET new == NewExpiry(now, out.data) IN
                [access_token |-> out.data.access_token,
                 token_expiry |-> IF new.ok THEN new.value ELSE twin.token_expiry]
    /\ UNCHANGED <<credentials, ops, tools, slot, clock, calls, loop, pc, frame, obs, origin>>

\* Time passes.
Tick(d) ==
    /\ ticks < MaxTicks
    /\ ticks' = ticks + 1
    /\ now' = now + d
    /\ UNCHANGED <<credentials, aside, slot, calls, loop, pc, frame, obs, origin>>

\* ------------------------------------------------------ endpoint operations

\* JSON as the operations see it after response.json(): an object is a record,
\* an array is List(sequence), a string Str, a number Num, null None.
List(s) == [list |-> s]
EmptyList == List(<<>>)
IsList(v) == DOMAIN v = {"list"}

Min(a, b) == IF a <= b THEN a ELSE b

\* d.get(k, default)
Get(d, k, default) == IF k \in DOMAIN d THEN d[k] ELSE default

\* s[:n] for n >= 0
Take(s, n) == SubSeq(s, 1, Min(n, Len(s)))

\* str(e) of an error raised by client.request, by the name of its class.
ExcText(err) == err.exc

\* misc.py:18  the list returned in place of the error
Unavailable_Reraises(err) == [raised |-> err]
Unavailable(err) ==
    [returned |->
        List(<<[message |-> Str("Recommendations not available: " \o ExcText(err))]>>)]

\* misc.py:20-29
ShapeRecommendations(data) ==
    LET pois == Take(Get(data, "data", EmptyList).list, 15) IN
    List([i \in DOMAIN pois |->
            [name |-> Get(pois[i], "name", None),
             category |-> Get(pois[i], "category", None),
             tags |-> Get(pois[i], "tags", EmptyList),
             rank |-> Get(pois[i], "rank", None),
             location |-> Get(pois[i], "geoCode", None)]])

\* The destinations, and none at all once the client has served a call.
ShapeDestinations_OnlyFirstCall(origin_cities, data) ==
    LET dests == IF calls <= 1
                 THEN Take(Get(data, "data", EmptyList).list, 15) ELSE <<>> IN
    [based_on |-> Str(origin_cities),
     recommendations |->
        List([i \in DOMAIN dests |->
                [destination |-> Get(dests[i], "name", None),
                 iata_code |-> Get(dests[i], "iataCode", None),
                 country |-> Get(Get(dests[i], "address", EmptyDict), "countryName", None),
                 score |-> Get(dests[i], "score", None),
                 type |-> Get(dests[i], "subType", None),
                 location |-> Get(dests[i], "geoCode", None)]])]

\* misc.py:43-53
ShapeDestinations(origin_cities, data) ==
    LET dests == Take(Get(data, "data", EmptyList).list, 15) IN
    [based_on |-> Str(origin_cities),
     recommendations |->
        List([i \in DOMAIN dests |->
                [destination |-> Get(dests[i], "name", None),
                 iata_code |-> Get(dests[i], "iataCode", None),
                 country |-> Get(Get(dests[i], "address", EmptyDict), "countryName", None),
                 score |-> Get(dests[i], "score", None),
                 type |-> Get(dests[i], "subType", None),
                 location |-> Get(dests[i], "geoCode", None)]])]

\* The segment with the operating carrier's code as carrier.
ShapeSegment_OperatingCarrier(seg) ==
    [departure |-> [airport |-> Get(Get(seg, "departure", EmptyDict), "iataCode", None),
                    time |-> Get(Get(seg, "departure", EmptyDict), "at", None)],
     arrival |-> [airport |-> Get(Get(seg, "arrival", EmptyDict), "iataCode", None),
                  time |-> Get(Get(seg, "arrival", EmptyDict), "at", None)],
     carrier |-> Get(Get(seg, "operating", EmptyDict), "carrierCode", None),
     flight_number |-> Get(seg, "number", None),
     duration |-> Get(seg, "duration", None)]

\* flights.py:43-56
ShapeSegment(seg) ==
    [departure |-> [airport |-> Get(Get(seg, "departure", EmptyDict), "iataCode", None),
                    time |-> Get(Get(seg, "departure", EmptyDict), "at", None)],
     arrival |-> [airport |-> Get(Get(seg, "arrival", EmptyDict), "iataCode", None),
                  time |-> Get(Get(seg, "arrival", EmptyDict), "at", None)],
     carrier |-> Get(seg, "carrierCode", None),
     flight_number |-> Get(seg, "number", None),
     duration |-> Get(seg, "duration", None)]

\* flights.py:40-60
ShapeItinerary(itin) ==
    LET segs == Get(itin, "segments", EmptyList).list IN
    [duration |-> Get(itin, "duration", None),
     segments |-> List([i \in DOMAIN segs |-> ShapeSegment(segs[i])])]

\* flights.py:61-69
ShapeOffer(offer) ==
    LET itins == Get(offer, "itineraries", EmptyList).list IN
    [id |-> Get(offer, "id", None),
     price |-> [total |-> Get(Get(offer, "price", EmptyDict), "total", None),
                currency |-> Get(Get(offer, "price", EmptyDict), "currency", None)],
     itineraries |-> List([i \in DOMAIN itins |-> ShapeItinerary(itins[i])]),
     seats_available |-> Get(offer, "numberOfBookableSeats", None)]

\* flights.py:38-70  max_results goes to the backend as "max" (line 30) and
\* is not applied to the list that comes back.
ShapeFlights(data, max_results) ==
    LET offers == Get(data, "data", EmptyList).list IN
    List([i \in DOMAIN offers |-> ShapeOffer(offers[i])])

\* airports.py:64  the largest radius sent
MaxRadius == 500

\* The params with the radius as requested.
NearestAirportsParams_Uncapped(latitude, longitude, radius, max_results) ==
    [latitude |-> Num(latitude), longitude |-> Num(longitude),
     radius |-> Num(radius), page_limit |-> Num(max_results),
     sort |-> Str("relevance")]

\* airports.py:61-67  ("page[limit]" is page_limit here)
NearestAirportsParams(latitude, longitude, radius, max_results) ==
    [latitude |-> Num(latitude), longitude |-> Num(longitude),
     radius |-> Num(Min(radius, MaxRadius)), page_limit |-> Num(max_results),
     sort |-> Str("relevance")]

\* airports.py:70-80
ShapeAirports(data) ==
    LET airports == Get(data, "data", EmptyList).list IN
    List([i \in DOMAIN airports |->
            [iata_code |-> Get(airports[i], "iataCode", None),
             name |-> Get(airports[i], "name", None),
             city |-> Get(Get(airports[i], "address", EmptyDict), "cityName", None),
             country |-> Get(Get(airports[i], "address", EmptyDict), "countryName", None),
             distance_km |-> Get(Get(airports[i], "distance", EmptyDict), "value", None),
             location |-> Get(airports[i], "geoCode", None)]])

\* The cancellation reported as processed whatever the result.
ShapeCancel_Processed(order_id, result) ==
    [message |-> Str("Cancellation processed"), response |-> result]

\* orders.py:66-68
ShapeCancel(order_id, result) ==
    IF Get(result, "status", None) = Str("success")
    THEN [message |-> Str("Order " \o order_id \o " cancelled successfully")]
    ELSE [message |-> Str("Cancellation processed"), response |-> result]

\* transfers.py:84-86
ShapeTransferCancel(order_id, result) ==
    IF Get(result, "status", None) = Str("success")
    THEN [message |-> Str("Transfer " \o order_id \o " cancelled successfully")]
    ELSE [message |-> Str("Cancellation processed"), response |-> result]

\* flights.py:81-86
ShapePrice(data) ==
    LET result == Get(data, "data", EmptyDict)
        offers == Get(result, "flightOffers", List(<<EmptyDict>>)).list
    IN [total_price |-> IF offers # <<>>
                        THEN Get(Get(offers[1], "price", EmptyDict), "total", None)
                        ELSE None,
        price_breakdown |-> IF offers # <<>>
                            THEN Get(offers[1], "travelerPricings", EmptyList)
                            ELSE EmptyList]

\* orders.py:37-45
ShapeOrder(data) ==
    LET result == Get(data, "data", EmptyDict)
        records == Get(result, "associatedRecords", List(<<EmptyDict>>)).list
    IN [order_id |-> Get(result, "id", None),
        booking_reference |-> IF records # <<>>
                              THEN Get(records[1], "reference", None) ELSE None,
        creation_date |-> Get(result, "creationDate", None),
        travelers |-> Get(result, "travelers", None),
        flight_offers |-> Get(result, "flightOffers", None)]

\* float(v) in hundredths: the decimal strings the backend prices with, a
\* JSON number, or the error float() raises.
Decimal ==
    ("90" :> 9000) @@ ("90.00" :> 9000) @@ ("150" :> 15000) @@ ("200" :> 20000)

Float(v) ==
    IF IsNum(v) THEN [ok |-> TRUE, value |-> v.num * 100]
    ELSE IF IsStr(v) /\ v.str \in DOMAIN Decimal
    THEN [ok |-> TRUE, value |-> Decimal[v.str]]
    ELSE [ok |-> FALSE, exc |-> IF IsStr(v) THEN "ValueError" ELSE "TypeError"]

\* The pairs in the order given.
SortedByKey_AsGiven(pairs) == pairs

\* sorted(items, key=...) over <<[key, item], ...>>: ascending and stable,
\* each item placed behind those already placed whose key is not greater.
RECURSIVE SortedByKey(_)
SortedByKey(pairs) ==
    IF pairs = <<>> THEN <<>>
    ELSE LET n == Len(pairs)
             front == SortedByKey(SubSeq(pairs, 1, n - 1))
             last == pairs[n]
             k == Cardinality({i \in DOMAIN front : front[i].key <= last.key})
         IN SubSeq(front, 1, k) \o <<last>> \o SubSeq(front, k + 1, Len(front))

\* The first item, whatever the keys.
FirstMin_First(pairs) == pairs[1].item

\* min(items, key=...): the first item whose key no other undercuts.
FirstMin(pairs) ==
    LET i == CHOOSE i \in DOMAIN pairs :
                 /\ \A j \in DOMAIN pairs : pairs[i].key <= pairs[j].key
                 /\ \A j \in 1..(i - 1) : pairs[j].key > pairs[i].key
    IN pairs[i].item

\* The ids of all the hotels of the list.
HotelIds_All(hotels_data, max_results) ==
    LET hs == Get(hotels_data, "data", EmptyList).list IN
    [i \in DOMAIN hs |-> Get(hs[i], "hotelId", None)]

\* hotels.py:30  the ids of the first max_results hotels of the list
HotelIds(hotels_data, max_results) ==
    LET hs == Take(Get(hotels_data, "data", EmptyList).list, max_results) IN
    [i \in DOMAIN hs |-> Get(hs[i], "hotelId", None)]

\* hotels.py:51  the key an offer is ranked by
OfferKey(offer) == Float(Get(Get(offer, "price", EmptyDict), "total", Num(999999)))

\* hotels.py:53-65  the entry of a hotel with its cheapest offer
HotelEntry(hotel, cheapest) ==
    LET hotel_info == Get(hotel, "hotel", EmptyDict) IN
    [hotel_id |-> Get(hotel_info, "hotelId", None),
     name |-> Get(hotel_info, "name", None),
     rating |-> Get(hotel_info, "rating", None),
     latitude |-> Get(hotel_info, "latitude", None),
     longitude |-> Get(hotel_info, "longitude", None),
     price |-> [total |-> Get(Get(cheapest, "price", EmptyDict), "total", None),
                currency |-> Get(Get(cheapest, "price", EmptyDict), "currency", None)],
     room_type |-> Get(Get(Get(cheapest, "room", EmptyDict), "typeEstimated", EmptyDict),
                       "category", None),
     offer_id |-> Get(cheapest, "id", None)]

\* hotels.py:66  the key an entry is sorted by
EntryKey(entry) == Float(Get(Get(entry, "price", EmptyDict), "total", Num(0)))

\* hotels.py:45-66  the entries of the hotels that have offers, sorted by
\* price; float() failing on any offer or entry ends the operation.
ShapeHotels(offers_data) ==
    LET hotels == Get(offers_data, "data", EmptyList).list
        Offers(i) == Get(hotels[i], "offers", EmptyList).list
        with == SelectSeq([i \in DOMAIN hotels |-> i], LAMBDA i : Offers(i) # <<>>)
        badOffer == {<<i, j>> \in UNION {{<<i, j>> : j \in DOMAIN Offers(i)} : i \in DOMAIN hotels} :
                        ~OfferKey(Offers(i)[j]).ok}
    IN
    IF badOffer # {}
    THEN LET b == CHOOSE b \in badOffer :
                      \A c \in badOffer : b[1] < c[1] \/ (b[1] = c[1] /\ b[2] <= c[2])
         IN [raised |-> [exc |-> OfferKey(Offers(b[1])[b[2]]).exc]]
    ELSE
    LET entries == [n \in DOMAIN with |->
                       HotelEntry(hotels[with[n]],
                                  FirstMin([j \in DOMAIN Offers(with[n]) |->
                                               [key |-> OfferKey(Offers(with[n])[j]).value,
                                                item |-> Offers(with[n])[j]]]))]
        badEntry == {n \in DOMAIN entries : ~EntryKey(entries[n]).ok}
    IN
    IF badEntry # {}
    THEN [raised |-> [exc |-> EntryKey(entries[CHOOSE n \in badEntry :
                                                   \A m \in badEntry : n <= m]).exc]]
    ELSE LET sorted == SortedByKey([n \in DOMAIN entries |->
                                       [key |-> EntryKey(entries[n]).value,
                                        item |-> entries[n]]])
         IN [returned |-> List([n \in DOMAIN sorted |-> sorted[n].item])]

\* The operations followed here, with the request each starts with; every
\* other operation of operations/*.py is one request and one shaping, as
\* get_recommended_destinations and search_flights are.
OpNames ==
    {"get_travel_recommendations", "get_recommended_destinations",
     "search_flights", "search_hotels", "cancel_flight_order", "cancel_transfer"}

OrderId == "ord1"
OriginCities == "par"
HotelOffersEndpoint == "/v3/shopping/hotel-offers"

FirstRequest(name) ==
    CASE name = "get_travel_recommendations" ->
            [kind |-> "request", method |-> "GET",
             endpoint |-> "/v1/reference-data/locations/pois"]
      [] name = "get_recommended_destinations" ->
            [kind |-> "request", method |-> "GET",
             endpoint |-> "/v1/reference-data/recommended-locations"]
      [] name = "search_flights" ->
            [kind |-> "request", method |-> "GET",
             endpoint |-> "/v2/shopping/flight-offers"]
      [] name = "search_hotels" ->
            [kind |-> "request", method |-> "GET",
             endpoint |-> "/v1/reference-data/locations/hotels/by-city"]
      [] name = "cancel_flight_order" ->
            [kind |-> "delete_request", method |-> "DELETE",
             endpoint |-> "/v1/booking/flight-orders/" \o OrderId]
      [] name = "cancel_transfer" ->
            [kind |-> "delete_request", method |-> "DELETE",
             endpoint |-> "/v1/booking/transfer-orders/" \o OrderId]
      [] name = "get_nearest_airports" ->
            [kind |-> "request", method |-> "GET",
             endpoint |-> "/v1/reference-data/locations/airports"]
      [] name = "get_flight_price" ->
            [kind |-> "request", method |-> "POST",
             endpoint |-> "/v1/shopping/flight-offers/pricing"]
      [] name = "create_flight_order" ->
            [kind |-> "request", method |-> "POST",
             endpoint |-> "/v1/booking/flight-orders"]

\* The most requests one call of the operation makes.
RequestsOf(name) == IF name = "search_hotels" THEN 2 ELSE 1

\* The error of client.request swallowed and an empty list returned.
Propagate_Swallows(r) == [returned |-> EmptyList]

\* No try around client.request: its error leaves the operation as it came.
Propagate(r) == [raised |-> r.raised]

\* What the operation does with the result r of its first request: return,
\* raise, or (search_hotels, hotels.py:30-43) go on to the offers request.
AfterFirst(name, max_results, r) ==
    CASE name = "get_travel_recommendations" ->
            IF "raised" \in DOMAIN r THEN Unavailable(r.raised)
            ELSE [returned |-> ShapeRecommendations(r.returned)]
      [] name = "get_recommended_destinations" ->
            IF "raised" \in DOMAIN r THEN Propagate(r)
            ELSE [returned |-> ShapeDestinations(OriginCities, r.returned)]
      [] name = "search_flights" ->
            IF "raised" \in DOMAIN r THEN Propagate(r)
            ELSE [returned |-> ShapeFlights(r.returned, max_results)]
      [] name = "cancel_flight_order" ->
            IF "raised" \in DOMAIN r THEN Propagate(r)
            ELSE [returned |-> ShapeCancel(OrderId, r.returned)]
      [] name = "cancel_transfer" ->
            IF "raised" \in DOMAIN r THEN Propagate(r)
            ELSE [returned |-> ShapeTransferCancel(OrderId, r.returned)]
      [] name = "get_nearest_airports" ->
            IF "raised" \in DOMAIN r THEN Propagate(r)
            ELSE [returned |-> ShapeAirports(r.returned)]
      [] name = "get_flight_price" ->
            IF "raised" \in DOMAIN r THEN Propagate(r)
            ELSE [returned |-> ShapePrice(r.returned)]
      [] name = "create_flight_order" ->
            IF "raised" \in DOMAIN r THEN Propagate(r)
            ELSE [returned |-> ShapeOrder(r.returned)]
      [] name = "search_hotels" ->
            IF "raised" \in DOMAIN r THEN Propagate(r)
            ELSE LET hotel_ids == HotelIds(r.returned, max_results) IN
                 IF hotel_ids = <<>> THEN [returned |-> EmptyList]
                 ELSE IF \E i \in DOMAIN hotel_ids : ~IsStr(hotel_ids[i])
                 THEN [raised |-> [exc |-> "TypeError"]]
                 ELSE [ask_offers |-> hotel_ids]

\* hotels.py:43-66
AfterOffers(r) ==
    IF "raised" \in DOMAIN r THEN Propagate(r) ELSE ShapeHotels(r.returned)

Ended(outcome) == "returned" \in DOMAIN outcome \/ "raised" \in DOMAIN outcome

\* The tool layer calls an operation on the client.
Invoke(p, name, max_results, limit) ==
    /\ ops.cur.stage \in {"idle", "done"}
    /\ pc[p] = "idle"
    /\ calls + RequestsOf(name) <= limit
    /\ ops' = [ops EXCEPT !.cur =
                  [NoOp EXCEPT !.name = name, !.max_results = max_results,
                               !.stage = "ask"]]
    /\ UNCHANGED <<credentials, twin, tools, slot, clock, calls, loop, pc, frame, obs, origin>>

\* The tool layer calls get_nearest_airports on the client.
InvokeNearest(p, latitude, longitude, radius, max_results, limit) ==
    /\ ops.cur.stage \in {"idle", "done"}
    /\ pc[p] = "idle"
    /\ calls + RequestsOf("get_nearest_airports") <= limit
    /\ ops' = [ops EXCEPT !.cur =
                  [NoOp EXCEPT !.name = "get_nearest_airports",
                               !.max_results = max_results,
                               !.args = [latitude |-> latitude, longitude |-> longitude,
                                         radius |-> radius],
                               !.stage = "ask"]]
    /\ UNCHANGED <<credentials, twin, tools, slot, clock, calls, loop, pc, frame, obs, origin>>

\* The operation calls client.request / client.delete_request;
\* get_nearest_airports passes the params it has built (airports.py:61-68).
Ask(p) ==
    /\ ops.cur.stage \in {"ask", "ask_offers"}
    /\ LET first == FirstRequest(ops.cur.name) IN
       IF ops.cur.stage = "ask"
       THEN BeginAt(p, first.kind, first.method, first.endpoint)
       ELSE BeginAt(p, "request", "GET", HotelOffersEndpoint)
    /\ ops' = [ops EXCEPT
                  !.cur.stage = IF ops.cur.stage = "ask" THEN "wait" ELSE "wait_offers",
                  !.cur.held =
                      IF ops.cur.name = "get_nearest_airports"
                      THEN NearestAirportsParams(ops.cur.args.latitude,
                                                 ops.cur.args.longitude,
                                                 ops.cur.args.radius,
                                                 ops.cur.max_results)
                      ELSE @]
    /\ UNCHANGED <<twin, tools>>

\* client.request has returned or raised and the operation goes on with it.
Resume(p) ==
    /\ ops.cur.stage \in {"wait", "wait_offers"}
    /\ FinishCall(p)
    /\ LET r == frame[p].result
           seen == Append(ops.cur.seen, r)
           outcome == IF ops.cur.stage = "wait"
                      THEN AfterFirst(ops.cur.name, ops.cur.max_results, r)
                      ELSE AfterOffers(r)
       IN
       ops' = IF Ended(outcome)
              THEN [cur |-> [ops.cur EXCEPT !.stage = "done", !.seen = seen,
                                            !.held = None, !.out = outcome],
                    first |-> IF ops.first = None
                              THEN [name |-> ops.cur.name,
                                    max_results |-> ops.cur.max_results,
                                    seen |-> seen, out |-> outcome]
                              ELSE ops.first]
              ELSE [ops EXCEPT !.cur.stage = "ask_offers", !.cur.seen = seen,
                               !.cur.held = List(outcome.ask_offers)]
    /\ UNCHANGED <<twin, tools>>

\* The shaping of an operation applied to a document already in hand.
ApplyShape ==
    /\ ops.cur.stage = "input"
    /\ LET r == ops.cur.seen[1]
           outcome == IF ops.cur.name = "search_hotels" THEN AfterOffers(r)
                      ELSE AfterFirst(ops.cur.name, ops.cur.max_results, r)
       IN ops' = [ops EXCEPT !.cur.stage = "done", !.cur.out = outcome]
    /\ UNCHANGED <<credentials, twin, tools, slot, clock, calls, loop, pc, frame, obs, origin>>

\* ------------------------------------------------------------- tool layers

\* json.loads on the texts a tool is called with: the value of a text that is
\* JSON, JSONDecodeError for any other.
JsonValue ==
    ("{\"id\": \"1\"}" :> [id |-> Str("1")])
    @@ ("[{\"id\": \"1\"}]" :> List(<<[id |-> Str("1")]>>))
    @@ ("null" :> None)

\* Every text taken for JSON and given back as a one-key object.
Loads_Lenient(text) ==
    IF text \in DOMAIN JsonValue THEN [ok |-> TRUE, value |-> JsonValue[text]]
    ELSE [ok |-> TRUE, value |-> [raw |-> Str(text)]]

Loads(text) ==
    IF text \in DOMAIN JsonValue THEN [ok |-> TRUE, value |-> JsonValue[text]]
    ELSE [ok |-> FALSE, exc |-> "JSONDecodeError"]

\* The tools that take JSON text, by the operation each calls, and how many
\* of their arguments are JSON text (server.py:82, :504; langchain_tools.py:65,
\* :519).
JsonTools == {"get_flight_price", "create_flight_order"}
JsonArity(tool) == IF tool = "create_flight_order" THEN 2 ELSE 1

\* json.loads(a1), json.loads(a2), ... evaluated left to right: the decoded
\* arguments, or the error of the first text that is not JSON.
DecodeAll(args) ==
    LET bad == {i \in DOMAIN args : ~Loads(args[i]).ok} IN
    IF bad # {}
    THEN [raised |-> [exc |-> Loads(args[CHOOSE i \in bad : \A j \in bad : i <= j]).exc]]
    ELSE [decoded |-> [i \in DOMAIN args |-> Loads(args[i]).value]]

\* The instances constructed so far in the process.
Instances == tools.built["server"] + tools.built["langchain_tools"]

\* A tool of a layer is invoked with its arguments; the first thing its body
\* evaluates is _get_client().
ToolInvoke(p, layer, tool, args, limit) ==
    /\ tools.call[p].stage = "idle"
    /\ pc[p] = "idle"
    /\ tools.started < limit
    /\ tools' = [tools EXCEPT
                    !.started = @ + 1,
                    !.call[p] = [NoCall EXCEPT !.layer = layer, !.tool = tool,
                                               !.args = args, !.stage = "test"]]
    /\ UNCHANGED <<credentials, twin, ops, slot, clock, calls, loop, pc, frame, obs, origin>>

\* server.py:33  if _client is None
\* langchain_tools.py:16  the lru_cache wrapper looks the call up
TestHeld(p) ==
    /\ tools.call[p].stage = "test"
    /\ tools' = [tools EXCEPT !.call[p].stage =
                    IF tools.held[tools.call[p].layer] = 0 THEN "build" ELSE "take"]
    /\ UNCHANGED <<credentials, twin, ops, slot, clock, calls, loop, pc, frame, obs, origin>>

\* server.py:34  _client = AmadeusClient()
\* langchain_tools.py:19  AmadeusClient() in the wrapped function; the
\* lru_cache wrapper stores its result unless the call was cached meanwhile.
Build(p) ==
    /\ tools.call[p].stage = "build"
    /\ LET layer == tools.call[p].layer
           new == Instances + 1
       IN tools' = [tools EXCEPT
                       !.built[layer] = @ + 1,
                       !.held[layer] = IF layer = "server" \/ @ = 0 THEN new ELSE @,
                       !.call[p].made = new,
                       !.call[p].stage = "take"]
    /\ UNCHANGED <<credentials, twin, ops, slot, clock, calls, loop, pc, frame, obs, origin>>

\* server.py:35  return _client
\* langchain_tools.py:16-19  the wrapper returns the cached instance on a hit
\* and the result of its own call on a miss.
TakeClient(p) ==
    /\ tools.call[p].stage = "take"
    /\ LET c == tools.call[p] IN
       tools' = [tools EXCEPT
                    !.call[p].client =
                        IF c.layer = "langchain_tools" /\ c.made # 0 THEN c.made
                        ELSE tools.held[c.layer],
                    !.call[p].stage = "have"]
    /\ UNCHANGED <<credentials, twin, ops, slot, clock, calls, loop, pc, frame, obs, origin>>

\* server.py:82, :504 / langchain_tools.py:65, :519  the JSON arguments are
\* decoded and the operation is called with them, or json.loads raises and
\* the invocation ends.
EnterOperation(p) ==
    /\ tools.call[p].stage = "have"
    /\ tools.call[p].tool \in JsonTools
    /\ ops.cur.stage \in {"idle", "done"}
    /\ LET d == DecodeAll(tools.call[p].args) IN
       IF "raised" \in DOMAIN d
       THEN /\ tools' = [tools EXCEPT !.call[p].stage = "done", !.call[p].out = d]
            /\ UNCHANGED ops
       ELSE /\ tools' = [tools EXCEPT !.call[p].stage = "in_operation"]
            /\ ops' = [ops EXCEPT !.cur =
                          [NoOp EXCEPT !.name = tools.call[p].tool,
                                       !.args = List(d.decoded), !.stage = "ask"]]
    /\ UNCHANGED <<credentials, twin, slot, clock, calls, loop, pc, frame, obs, origin>>

\* server.py:38-39 / langchain_tools.py:22-23  json.dumps of a value, kept as
\* the value the text renders.
Dumps(value) == [json |-> value]

\* The operation has returned or raised: the tool returns _json(result), or
\* the error leaves the tool.
ToolReturn(p) ==
    /\ tools.call[p].stage = "in_operation"
    /\ ops.cur.stage = "done"
    /\ tools' = [tools EXCEPT
                    !.call[p].stage = "done",
                    !.call[p].out =
                        IF "raised" \in DOMAIN ops.cur.out THEN ops.cur.out
                        ELSE [returned |-> Dumps(ops.cur.out.returned)]]
    /\ UNCHANGED <<credentials, twin, ops, slot, clock, calls, loop, pc, frame, obs, origin>>

\* The invoker has the tool's result or its error.
ToolLeave(p) ==
    /\ tools.call[p].stage = "done"
    /\ tools' = [tools EXCEPT !.call[p] = NoCall]
    /\ UNCHANGED <<credentials, twin, ops, slot, clock, calls, loop, pc, frame, obs, origin>>

\* The rest of an invocation that has its client goes by without touching
\* what the layer holds.
GoOn(p) ==
    /\ tools.call[p].stage = "have"
    /\ tools' = [tools EXCEPT !.call[p] = NoCall]
    /\ UNCHANGED <<credentials, twin, ops, slot, clock, calls, loop, pc, frame, obs, origin>>

\* ---------------------------------------------------------- specifications

\* One step of the call p is in, the network answering from the given replies.
Advance(p, tokenReplies, apiReplies) ==
    \/ CheckToken(p)
    \/ ReturnCached(p)
    \/ PostToken(p)
    \/ \E reply \in tokenReplies : TokenReply(p, reply)
    \/ StoreToken(p)
    \/ StoreExpiry(p)
    \/ ReturnFresh(p)
    \/ Send(p)
    \/ \E reply \in apiReplies : Reply(p, reply)

Step(p, tokenReplies, apiReplies) ==
    \/ Advance(p, tokenReplies, apiReplies)
    \/ Finish(p)

Enter(p, methods) ==
    \E kind \in Kinds :
        \E method \in (IF IsDelete(kind) THEN {"DELETE"} ELSE methods) :
            Begin(p, kind, method)

\* Callers share the client freely while time passes.
Next ==
    \/ \E p \in Callers : Enter(p, Methods) \/ Step(p, TokenReplies, ApiReplies)
    \/ \E d \in TickSteps : Tick(d)

Spec == Init /\ [][Next]_vars

\* The part of Spec in which one caller makes one call at a time while time
\* passes: the single-threaded use of a client.
SingleCaller == CHOOSE p \in Callers : TRUE

SeqNext ==
    \/ Enter(SingleCaller, Methods)
    \/ Step(SingleCaller, TokenReplies, ApiReplies)
    \/ \E d \in TickSteps : Tick(d)

SeqSpec == Init /\ [][SeqNext]_vars

\* The part of Spec in which the callers' calls interleave freely within one
\* instant of the clock, the network answering from the shared replies.
RaceNext ==
    \E p \in Callers :
        Enter(p, {"GET"}) \/ Step(p, SharedTokenReplies, SharedApiReplies)

RaceSpec == Init /\ [][RaceNext]_vars

\* One caller on the client, within one instant of the clock, while a second
\* client instance of the same process is used beside it.
TwinNext ==
    \/ Enter(SingleCaller, Methods)
    \/ Step(SingleCaller, TokenReplies, ApiReplies)
    \/ \E reply \in SharedTokenReplies : OtherClientCall(reply)

TwinSpec == Init /\ [][TwinNext]_vars

\* One caller on a client constructed with or without configuration, within
\* one instant of the clock.
ConfigNext ==
    \/ Enter(SingleCaller, Methods)
    \/ Step(SingleCaller, TokenReplies, ApiReplies)

ConfigSpec == ConfigInit /\ [][ConfigNext]_vars

\* Lifetimes at and below the safety margin, and one above it.
ShortTokenDocs ==
    { [access_token |-> Str(t), expires_in |-> Num(e)] :
        t \in Tokens, e \in {0, 60, 61} }

ShortTokenReplies ==
    { [status |-> 200, body |-> Json(d)] : d \in ShortTokenDocs }
    \cup { [status |-> 401, body |-> Raw("Unavailable")] }

\* One caller making one call at a time while time passes, against a provider
\* whose tokens live about as long as the safety margin.
ShortLivedNext ==
    \/ Enter(SingleCaller, {"GET"})
    \/ Step(SingleCaller, ShortTokenReplies, SharedApiReplies)
    \/ \E d \in TickSteps : Tick(d)

ShortLivedSpec == Init /\ [][ShortLivedNext]_vars

\* Requests over a behaviour of operations, and the max_results they are
\* called with.
MaxOpCalls == 3
MaxResultsArgs == {0, 1}

\* Documents the backend answers an endpoint with.
Poi == [name |-> Str("Louvre"), category |-> Str("SIGHTS"), rank |-> Num(1)]
Destination == [name |-> Str("Lisbon"), iataCode |-> Str("LIS"), subType |-> Str("CITY")]
Airport ==
    [iataCode |-> Str("CDG"), name |-> Str("Charles de Gaulle"),
     address |-> [cityName |-> Str("Paris")], distance |-> [value |-> Num(23)]]
Segment(carrier) ==
    [departure |-> [iataCode |-> Str("JFK"), at |-> Str("2025-06-01T08:00")],
     arrival |-> [iataCode |-> Str("LAX"), at |-> Str("2025-06-01T11:00")],
     carrierCode |-> Str(carrier), number |-> Str("123")]
FlightOffer(id, total, carrier) ==
    [id |-> Str(id), price |-> [total |-> Str(total), currency |-> Str("USD")],
     itineraries |-> List(<<[duration |-> Str("PT6H"),
                             segments |-> List(<<Segment(carrier)>>)]>>)]
HotelOffer(id, total) ==
    [id |-> Str(id), price |-> [total |-> Str(total), currency |-> Str("USD")]]
Hotel(id, offers) ==
    [hotel |-> [hotelId |-> Str(id), name |-> Str("Hotel " \o id)],
     offers |-> List(offers)]

OpDocs(endpoint) ==
    CASE endpoint = "/v1/reference-data/locations/pois" ->
            { [data |-> List(<<Poi>>)], [warnings |-> EmptyList] }
      [] endpoint = "/v1/reference-data/recommended-locations" ->
            { [data |-> List(<<Destination>>)] }
      [] endpoint = "/v2/shopping/flight-offers" ->
            { [data |-> List(<<FlightOffer("1", "350.00", "AA")>>)],
              [data |-> EmptyList] }
      [] endpoint = "/v1/reference-data/locations/hotels/by-city" ->
            { [data |-> List(<<[hotelId |-> Str("H1")], [hotelId |-> Str("H2")]>>)],
              [data |-> EmptyList] }
      [] endpoint = HotelOffersEndpoint ->
            { [data |-> List(<<Hotel("H1", <<HotelOffer("o1", "200")>>),
                               Hotel("H2", <<HotelOffer("o2", "150")>>)>>)] }
      [] endpoint = "/v1/reference-data/locations/airports" ->
            { [data |-> List(<<Airport>>)], [data |-> EmptyList] }
      [] endpoint \in {"/v1/booking/flight-orders/" \o OrderId,
                       "/v1/booking/transfer-orders/" \o OrderId} ->
            { [data |-> [id |-> Str(OrderId)]], [status |-> Str("success")],
              [status |-> Str("CANCELLED")] }
      [] OTHER -> { [data |-> [id |-> Str(OrderId)]] }

OpApiReplies(endpoint) ==
    { [failed |-> "ReadTimeout"], [status |-> 500, body |-> Raw("")],
      [status |-> 204, body |-> Raw("")] }
    \cup { [status |-> 200, body |-> Json(d)] : d \in OpDocs(endpoint) }

OpTokenReplies ==
    { [status |-> 200, body |-> Json([access_token |-> Str("tokA")])],
      [status |-> 401, body |-> Raw("Unavailable")] }

\* The tool layer calling operations one after another on the client, within
\* one instant of the clock.
OpNext ==
    \/ \E name \in OpNames, m \in MaxResultsArgs :
          Invoke(SingleCaller, name, m, MaxOpCalls)
    \/ Ask(SingleCaller)
    \/ Advance(SingleCaller, OpTokenReplies, OpApiReplies(frame[SingleCaller].endpoint))
    \/ Resume(SingleCaller)

OpSpec == Init /\ [][OpNext]_vars

\* Sequences over S of length at most n.
SeqsUpTo(S, n) == UNION {[1..k -> S] : k \in 0..n}

\* price.total as the backend gives it: decimal strings, or none at all.
Totals == {"90", "150", "200", "90.00"}
PricedOffers == { [price |-> [total |-> Str(t), currency |-> Str("USD")]] : t \in Totals }
UnpricedOffers == { [price |-> [currency |-> Str("USD")]] }

\* Offers get their place in the hotel's list as id and their room by it,
\* hotels theirs in the document; a second hotel without offers has no
\* "offers" at all, a first one an empty list.
OffersOf(kinds) ==
    List([j \in DOMAIN kinds |->
             [id |-> Str(IF j = 1 THEN "a" ELSE "b"),
              room |-> [typeEstimated |->
                           [category |-> Str(IF j = 1 THEN "SUITE" ELSE "STANDARD_ROOM")]]]
             @@ kinds[j]])
HotelDocs ==
    { [data |-> List([i \in DOMAIN hs |->
                         IF hs[i] = <<>> /\ i = 2
                         THEN [hotel |-> [hotelId |-> Str("H2")]]
                         ELSE [hotel |-> [hotelId |-> Str(IF i = 1 THEN "H1" ELSE "H2")],
                               offers |-> OffersOf(hs[i])]])] :
        hs \in SeqsUpTo(SeqsUpTo(PricedOffers \cup UnpricedOffers, 2), 2) }

Carriers == {"AA", "DL"}
Itineraries ==
    { List(<<>>) }
    \cup { List(<<[segments |-> List([k \in DOMAIN cs |-> [carrierCode |-> Str(cs[k])]])]>>) :
             cs \in SeqsUpTo(Carriers, 2) }
FlightOffers ==
    { [id |-> Str("f"), price |-> [total |-> Str(t)], itineraries |-> its] :
        t \in {"350.00", "90"}, its \in Itineraries }
    \cup { [id |-> Str("g")] }
FlightDocs ==
    { [data |-> List(fs)] : fs \in SeqsUpTo(FlightOffers, 2) }
    \cup { [meta |-> [count |-> Num(0)]] }

\* The radii get_nearest_airports is called with, around a fixed place.
Radii == {0, 100, 499, 500, 501, 1000}

\* The tool layer calling get_nearest_airports time after time on the client,
\* within one instant of the clock.
AirportNext ==
    \/ \E radius \in Radii, m \in MaxResultsArgs :
          InvokeNearest(SingleCaller, 48, 2, radius, m, MaxOpCalls)
    \/ Ask(SingleCaller)
    \/ Advance(SingleCaller, OpTokenReplies, OpApiReplies(frame[SingleCaller].endpoint))
    \/ Resume(SingleCaller)

AirportSpec == Init /\ [][AirportNext]_vars

\* Tool invocations begun over a behaviour, and the texts they are given.
MaxToolCalls == 2
ArgTexts == DOMAIN JsonValue \cup {"{id: 1}", ""}

\* One invoker calls the tools that take JSON text, one after another, within
\* one instant of the clock.
ToolNext ==
    \/ \E layer \in Layers, tool \in JsonTools :
          \E args \in [1..JsonArity(tool) -> ArgTexts] :
             ToolInvoke(SingleCaller, layer, tool, args, MaxToolCalls)
    \/ TestHeld(SingleCaller)
    \/ Build(SingleCaller)
    \/ TakeClient(SingleCaller)
    \/ EnterOperation(SingleCaller)
    \/ Ask(SingleCaller)
    \/ Advance(SingleCaller, OpTokenReplies, OpApiReplies(frame[SingleCaller].endpoint))
    \/ Resume(SingleCaller)
    \/ ToolReturn(SingleCaller)
    \/ ToolLeave(SingleCaller)

ToolSpec == Init /\ [][ToolNext]_vars

\* Threads invoke tools of either layer at once, each invocation followed as
\* far as its _get_client() call.
SingletonNext ==
    \E p \in Callers :
        \/ \E layer \in Layers : ToolInvoke(p, layer, "any", <<>>, MaxToolCalls)
        \/ TestHeld(p)
        \/ Build(p)
        \/ TakeClient(p)
        \/ GoOn(p)

SingletonSpec == Init /\ [][SingletonNext]_vars

\* An operation's shaping applied to whatever document the backend may have
\* answered with.
ShapeInit ==
    /\ \E env \in Environments, args \in CtorArgs : Construct(env, args)
    /\ \E name \in {"search_hotels", "search_flights"} :
       \E doc \in (IF name = "search_hotels" THEN HotelDocs ELSE FlightDocs) :
       \E m \in MaxResultsArgs :
          ops = [cur |-> [NoOp EXCEPT !.name = name, !.max_results = m,
                                      !.stage = "input",
                                      !.seen = <<[returned |-> doc]>>],
                 first |-> None]
    /\ tools = NoTools

ShapeSpec == ShapeInit /\ [][ApplyShape]_vars

\* ------------------------------------------------------------------ claims

\* The requests a call has sent so far, told apart by where they went.
TokenUrl == base_url.str \o "/v1/security/oauth2/token"
IsTokenPost(r) == r.method = "POST" /\ r.url = TokenUrl
TokenPosts(p) == Cardinality({i \in DOMAIN obs[p].sent : IsTokenPost(obs[p].sent[i])})
ApiSends(p) == Cardinality({i \in DOMAIN obs[p].sent : ~IsTokenPost(obs[p].sent[i])})

\* What the slot held when the call of p made its cache test: a token whose
\* stored expiry was still ahead, or not.
Tested(p) == obs[p].checked # None
SawLiveToken(p) ==
    Tested(p) /\ obs[p].checked.token # None /\ obs[p].checked.fresh
SawNoLiveToken(p) == Tested(p) /\ ~SawLiveToken(p)

Returned(p) == pc[p] = "done" /\ "returned" \in DOMAIN frame[p].result
Raised(p) == pc[p] = "done" /\ "raised" \in DOMAIN frame[p].result

\* C1: a call that finds a stored token with now < stored expiry never asks
\* the token endpoint for anything, at any point of the call, and the Token
\* Manager hands it the very token that was stored.
C1_CachedTokenServed ==
    \A p \in Callers :
        SawLiveToken(p) =>
            /\ TokenPosts(p) = 0
            /\ pc[p] \in {"return_cached", "send", "wait", "done"}
            /\ obs[p].handed # None => obs[p].handed.token = obs[p].checked.token

\* C1 happens: a later call ends well on a token served from the cache some
\* time after it was stored.
C1_Witness ==
    \E p \in Callers :
        /\ Returned(p)
        /\ SawLiveToken(p)
        /\ obs[p].checked.at > origin.at
        /\ TokenPosts(p) = 0

\* C2: a single caller that finds no token, or one whose expiry has passed,
\* sends exactly one POST to {base_url}/v1/security/oauth2/token in that call,
\* as its first request, and the token it gets is that reply's access_token.
C2_OneRefresh ==
    \A p \in Callers :
        SawNoLiveToken(p) =>
            /\ pc[p] # "return_cached"
            /\ pc[p] # "post" =>
                  /\ TokenPosts(p) = 1
                  /\ obs[p].sent[1].method = "POST"
                  /\ obs[p].sent[1].url =
                        base_url.str \o "/v1/security/oauth2/token"
            /\ pc[p] = "send" =>
                  /\ obs[p].token_reply # None
                  /\ frame[p].token = obs[p].token_reply.body.encodes.access_token

\* C2 happens: the cached token had expired, and the caller goes on with the
\* new one.
C2_Witness ==
    \E p \in Callers :
        /\ pc[p] = "send"
        /\ SawNoLiveToken(p)
        /\ obs[p].checked.token # None
        /\ frame[p].token # obs[p].checked.token
        /\ TokenPosts(p) = 1

\* The lifetime a token document states: expires_in, or 1700 without one.
StatedLifetime(expires_in) == IF expires_in = None THEN 1700 ELSE expires_in.num

\* C3: the stored expiry is the time of the refresh plus expires_in (1700 when
\* the reply has none) minus 60 seconds, and a later call is served from the
\* cache exactly while the token's age is below expires_in - 60.
C3_ExpiryAndWindow ==
    /\ token_expiry # None =>
          token_expiry = At(origin.at + StatedLifetime(origin.expires_in) - 60)
    /\ \A p \in Callers :
          (pc[p] \in {"return_cached", "post"} /\ origin.expiry # 0) =>
              ( obs[p].check = "hit"
                <=> obs[p].checked.at - origin.at
                      < StatedLifetime(origin.expires_in) - 60 )

\* C3 happens: with no expires_in in the reply, the token is still served 1639
\* seconds after the refresh.
C3_Witness ==
    \E p \in Callers :
        /\ pc[p] = "return_cached"
        /\ origin.expires_in = None
        /\ obs[p].checked.at - origin.at = 1639

HasStatus(reply) == reply # None /\ "status" \in DOMAIN reply
Failed(reply) == reply # None /\ "failed" \in DOMAIN reply
Is2xx(status) == status \in 200..299
IsJsonBody(reply) == "encodes" \in DOMAIN reply.body

\* C5: on a 204 reply request / arequest return {} and delete_request /
\* adelete_request return {status: "success"}, the body never parsed.
C5_NoContent ==
    \A p \in Callers :
        (pc[p] = "done" /\ HasStatus(obs[p].api_reply)
            /\ obs[p].api_reply.status = 204) =>
            /\ ~obs[p].parsed
            /\ frame[p].result =
                  [returned |-> IF frame[p].kind \in {"delete_request", "adelete_request"}
                                THEN [status |-> Str("success")]
                                ELSE EmptyDict]

\* C5 happens: a POST through request is answered 204 with an empty body.
C5_Witness ==
    \E p \in Callers :
        /\ Returned(p)
        /\ frame[p].kind = "request"
        /\ frame[p].method = "POST"
        /\ obs[p].api_reply = [status |-> 204, body |-> Raw("")]

\* C6: on a non-2xx reply request / arequest raise an error that carries the
\* reply's status and body, without having parsed the body.
C6_ErrorBeforeParse ==
    \A p \in Callers :
        (pc[p] = "done" /\ frame[p].kind \in {"request", "arequest"}
            /\ HasStatus(obs[p].api_reply)
            /\ ~Is2xx(obs[p].api_reply.status)) =>
            /\ ~obs[p].parsed
            /\ frame[p].result =
                  [raised |-> [exc |-> "HTTPStatusError",
                               status |-> obs[p].api_reply.status,
                               body |-> obs[p].api_reply.body]]

\* C6 happens: arequest is answered 404 with a body that is no JSON.
C6_Witness ==
    \E p \in Callers :
        /\ Raised(p)
        /\ frame[p].kind = "arequest"
        /\ obs[p].api_reply = [status |-> 404, body |-> Raw("")]

\* C7, as the specification states it: a DELETE answered with any status but
\* 204 has its (JSON) body parsed and returned as it is.
C7_Original ==
    \A p \in Callers :
        (pc[p] = "done" /\ frame[p].kind \in {"delete_request", "adelete_request"}
            /\ HasStatus(obs[p].api_reply)
            /\ obs[p].api_reply.status # 204
            /\ IsJsonBody(obs[p].api_reply)) =>
            /\ obs[p].parsed
            /\ frame[p].result = [returned |-> obs[p].api_reply.body.encodes]

\* C7, amended: a DELETE answered with a 2xx status other than 204 has its
\* body parsed as JSON and returned as it is; answered with a non-2xx status
\* it raises an error carrying status and body, the body not parsed.
C7_DeleteOther2xx ==
    \A p \in Callers :
        (pc[p] = "done" /\ frame[p].kind \in {"delete_request", "adelete_request"}
            /\ HasStatus(obs[p].api_reply)
            /\ obs[p].api_reply.status # 204) =>
            IF Is2xx(obs[p].api_reply.status)
            THEN /\ obs[p].parsed
                 /\ frame[p].result =
                       IF IsJsonBody(obs[p].api_reply)
                       THEN [returned |-> obs[p].api_reply.body.encodes]
                       ELSE [raised |-> [exc |-> "JSONDecodeError"]]
            ELSE /\ ~obs[p].parsed
                 /\ frame[p].result =
                       [raised |-> [exc |-> "HTTPStatusError",
                                    status |-> obs[p].api_reply.status,
                                    body |-> obs[p].api_reply.body]]

\* C7 happens: delete_request is answered 200 with a JSON body and returns it.
C7_Witness ==
    \E p \in Callers :
        /\ Returned(p)
        /\ frame[p].kind = "delete_request"
        /\ obs[p].api_reply.status = 200
        /\ frame[p].result.returned = [data |-> Str("d1")]

ApiRequests(p) ==
    {obs[p].sent[i] : i \in {j \in DOMAIN obs[p].sent : ~IsTokenPost(obs[p].sent[j])}}
AfterTokenManager(p) == obs[p].check # "none" /\ obs[p].handed # None
Bearer(p) == "Bearer " \o obs[p].handed.token.str

\* C8, as the specification states it: every business request follows a Token
\* Manager call of the same call and carries Authorization: Bearer <token> and
\* Content-Type: application/json, the two deletion methods included.
C8_Original ==
    \A p \in Callers : \A r \in ApiRequests(p) :
        /\ AfterTokenManager(p)
        /\ DOMAIN r.headers = {"Authorization", "Content-Type"}
        /\ r.headers["Authorization"] = Bearer(p)
        /\ r.headers["Content-Type"] = "application/json"

\* C8, amended: every business request follows a Token Manager call of the
\* same call and carries Authorization: Bearer <the token that call handed
\* over>; request / arequest also carry Content-Type: application/json, and
\* delete_request / adelete_request carry no other header.
C8_BearerOnEveryRequest ==
    \A p \in Callers : \A r \in ApiRequests(p) :
        /\ AfterTokenManager(p)
        /\ r.headers["Authorization"] = Bearer(p)
        /\ IF frame[p].kind \in {"delete_request", "adelete_request"}
           THEN DOMAIN r.headers = {"Authorization"}
           ELSE /\ DOMAIN r.headers = {"Authorization", "Content-Type"}
                /\ r.headers["Content-Type"] = "application/json"

\* C8 happens: a DELETE and a request of another call are both out, each
\* after its own Token Manager call.
C8_Witness ==
    \E p, q \in Callers :
        /\ pc[p] = "wait" /\ frame[p].kind = "adelete_request"
        /\ pc[q] = "wait" /\ frame[q].kind = "request"
        /\ ApiRequests(p) # {} /\ ApiRequests(q) # {}

\* C9: when the token endpoint answers with a non-2xx status, the call ends
\* with an error that carries that status and body, and no business request
\* has been sent.
C9_AuthErrorStopsCall ==
    \A p \in Callers :
        (HasStatus(obs[p].token_reply) /\ ~Is2xx(obs[p].token_reply.status)) =>
            /\ pc[p] = "done"
            /\ frame[p].result =
                  [raised |-> [exc |-> "HTTPStatusError",
                               status |-> obs[p].token_reply.status,
                               body |-> obs[p].token_reply.body]]
            /\ ApiSends(p) = 0

\* C9 happens: the token endpoint answers 500 to the refresh of a
\* delete_request.
C9_Witness ==
    \E p \in Callers :
        /\ Raised(p)
        /\ frame[p].kind = "delete_request"
        /\ HasStatus(obs[p].token_reply)
        /\ obs[p].token_reply.status = 500
        /\ TokenPosts(p) = 1

Rejected(reply) == HasStatus(reply) /\ ~Is2xx(reply.status)

\* C10: one call sends at most one token request and at most one business
\* request; once a request of it met a connection failure, a timeout or an
\* error status, the call has failed and nothing is sent again.
C10_NoRetry ==
    \A p \in Callers :
        /\ TokenPosts(p) <= 1
        /\ ApiSends(p) <= 1
        /\ (Failed(obs[p].token_reply) \/ Rejected(obs[p].token_reply)) =>
               Raised(p) /\ TokenPosts(p) = 1 /\ ApiSends(p) = 0
        /\ (Failed(obs[p].api_reply) \/ Rejected(obs[p].api_reply)) =>
               Raised(p) /\ ApiSends(p) = 1

\* C10 happens: the business request of a call that refreshed the token
\* times out.
C10_Witness ==
    \E p \in Callers :
        /\ Raised(p)
        /\ obs[p].api_reply = [failed |-> "ReadTimeout"]
        /\ TokenPosts(p) = 1
        /\ ApiSends(p) = 1

IssuedTokens == {Str(t) : t \in Tokens}

\* The step in which the call of p writes the access token of its reply.
WritesToken(p) == pc[p] = "store_token" /\ pc'[p] = "store_expiry"

C12_Wholesale ==
    (\A p \in Callers : pc[p] # "store_expiry") =>
        /\ origin.token = origin.expiry
        /\ (access_token = None) = (token_expiry = None)

\* The steps of a call that are the refresh of its Token Manager writing the
\* slot (client.py:55-58), and the steps that are its business request.
RefreshWrite(p) ==
    \/ pc[p] = "store_token" /\ pc'[p] = "store_expiry"
    \/ pc[p] = "store_expiry" /\ pc'[p] = "return_fresh"
BusinessStep(p) == pc[p] \in {"send", "wait"} /\ pc'[p] # pc[p]

\* C13: the token slot of a client changes only in a step in which the
\* refresh of its own Token Manager writes it; the business-request steps of
\* a call and a call made on another client instance leave it as it was; and
\* client_id, client_secret and base_url never change after construction.
C13_Frame ==
    [][ /\ slot' # slot => \E p \in Callers : RefreshWrite(p)
        /\ \A p \in Callers : BusinessStep(p) => slot' = slot
        /\ twin' # twin => slot' = slot /\ pc' = pc
        /\ credentials' = credentials
      ]_vars

\* C13 happens: the client and the second instance each hold a token of
\* their own, and a business request of the client has been answered.
C13_Witness ==
    \E p \in Callers :
        /\ Returned(p)
        /\ access_token # None
        /\ twin.access_token # None
        /\ twin.access_token # access_token

\* The blocking method that an async method mirrors.
SyncOf(kind) ==
    CASE kind = "arequest" -> "request"
      [] kind = "adelete_request" -> "delete_request"
      [] OTHER -> kind

Kept == [kept |-> TRUE]

\* _get_token_sync (client.py:37-59) run in one piece: what it returns or
\* raises, what it sends, and what it writes to the slot, given the outcome of
\* the cache test, the stored token, the token endpoint's reply and the time
\* at which the expiry is computed.
GetTokenSync(hit, stored, reply, t) ==
    LET post == <<TokenRequest(base_url, client_id, client_secret)>>
        out == ReadTokenResponse(reply)
    IN
    IF hit
    THEN [outcome |-> [returned |-> stored], sent |-> <<>>,
          token |-> Kept, expiry |-> Kept]
    ELSE IF "raised" \in DOMAIN out
    THEN [outcome |-> [raised |-> out.raised], sent |-> post,
          token |-> Kept, expiry |-> Kept]
    ELSE IF "access_token" \notin DOMAIN out.data
    THEN [outcome |-> [raised |-> [exc |-> "KeyError"]], sent |-> post,
          token |-> Kept, expiry |-> Kept]
    ELSE LET new == NewExpiry(t, out.data) IN
         IF ~new.ok
         THEN [outcome |-> [raised |-> [exc |-> "TypeError"]], sent |-> post,
               token |-> out.data.access_token, expiry |-> Kept]
         ELSE [outcome |-> [returned |-> out.data.access_token], sent |-> post,
               token |-> out.data.access_token, expiry |-> new.value]

\* request / delete_request (client.py:97-111, :120-128) run in one piece
\* once the token is in hand.
RequestSync(kind, method, endpoint, token, reply) ==
    LET out == IF kind = "delete_request" THEN ReadDeleteResponse(reply)
               ELSE ReadResponse(reply)
    IN [sent |-> <<ApiRequest(kind, method, endpoint, base_url, token)>>,
        outcome |-> IF "raised" \in DOMAIN out THEN [raised |-> out.raised]
                    ELSE [returned |-> out.returned]]

\* The Token Manager of the call of p has returned or raised.
TokenManagerDone(p) ==
    \/ pc[p] = "send"
    \/ pc[p] = "done" /\ ApiSends(p) = 0

\* What the Token Manager of the call of p did, as the state shows it.
TokenManagerDid(p) ==
    [outcome |-> IF pc[p] = "send" THEN [returned |-> frame[p].token]
                 ELSE frame[p].result,
     sent |-> obs[p].sent,
     token |-> IF origin.token = frame[p].id THEN access_token ELSE Kept,
     expiry |-> IF origin.expiry = frame[p].id THEN token_expiry ELSE Kept]

AllSent == UNION {{obs[p].sent[i] : i \in DOMAIN obs[p].sent} : p \in Callers}

\* C15: the client exists with string credentials (blank when nothing is
\* configured) whatever the configuration; until the first call begins the
\* slot is empty, no request has been sent and nothing has failed; a token
\* request is only ever sent by a call, with the credentials as constructed;
\* and a failure appears only in a call that has sent its token request.
C15_LazyFirstToken ==
    /\ IsStr(client_id) /\ IsStr(client_secret) /\ IsStr(base_url)
    /\ calls = 0 =>
          /\ slot = <<None, None>>
          /\ AllSent = {}
          /\ \A p \in Callers : pc[p] = "idle" /\ frame[p].result = None
    /\ \A p \in Callers :
          /\ obs[p].sent # <<>> => pc[p] \notin {"idle", "check"}
          /\ TokenPosts(p) = 1 =>
                obs[p].sent[1] = TokenRequest(base_url, client_id, client_secret)
          /\ (Raised(p) /\ frame[p].id = 1) => TokenPosts(p) = 1

\* C15 happens: a client built with no configuration sends blank credentials
\* in its first call and the provider's 401 ends that call.
C15_Witness ==
    \E p \in Callers :
        /\ client_id = Str("") /\ client_secret = Str("")
        /\ frame[p].id = 1
        /\ Raised(p)
        /\ frame[p].result.raised.exc = "HTTPStatusError"
        /\ frame[p].result.raised.status = 401
        /\ obs[p].sent[1].data.client_id = ""
        /\ slot = <<None, None>>

\* sub occurs in the string s.
Contains(s, sub) ==
    \E i \in 1..(Len(s) - Len(sub) + 1) : SubSeq(s, i, i + Len(sub) - 1) = sub

OpDone(name) == ops.cur.stage = "done" /\ ops.cur.name = name
Failures == {i \in DOMAIN ops.cur.seen : "raised" \in DOMAIN ops.cur.seen[i]}

\* C16: when the client.request of get_travel_recommendations raises, the
\* operation raises nothing and returns a list of exactly one element whose
\* message contains "not available".
C16_RecommendationsSwallow ==
    (OpDone("get_travel_recommendations") /\ Failures # {}) =>
        /\ DOMAIN ops.cur.out = {"returned"}
        /\ IsList(ops.cur.out.returned)
        /\ Len(ops.cur.out.returned.list) = 1
        /\ Contains(ops.cur.out.returned.list[1].message.str, "not available")

\* C16 happens: the token endpoint rejects the refresh of the operation's
\* request, and the operation has returned.
C16_Witness ==
    /\ OpDone("get_travel_recommendations")
    /\ ops.cur.seen[1] =
          [raised |-> [exc |-> "HTTPStatusError", status |-> 401,
                       body |-> Raw("Unavailable")]]
    /\ "returned" \in DOMAIN ops.cur.out

\* C17: when a client.request / client.delete_request of any other operation
\* raises, the operation ends there raising that error: it returns nothing and
\* makes no further request, search_hotels after a good hotel list included.
C17_OthersPropagate ==
    \A i \in Failures :
        ops.cur.name # "get_travel_recommendations" =>
            /\ ops.cur.stage = "done"
            /\ i = Len(ops.cur.seen)
            /\ ops.cur.out = [raised |-> ops.cur.seen[i].raised]

\* C17 happens: the offers request of search_hotels times out after the
\* hotel list came back with hotels.
C17_Witness ==
    /\ OpDone("search_hotels")
    /\ Len(ops.cur.seen) = 2
    /\ "returned" \in DOMAIN ops.cur.seen[1]
    /\ ops.cur.seen[2] = [raised |-> [exc |-> "ReadTimeout"]]
    /\ "raised" \in DOMAIN ops.cur.out

Shaped(name) == OpDone(name) /\ "returned" \in DOMAIN ops.cur.out
Input == ops.cur.seen[1].returned
InputList == IF "data" \in DOMAIN Input THEN Input.data.list ELSE <<>>

\* Every offer of every hotel of the document has a price total.
HotelOffers(i) ==
    IF "offers" \in DOMAIN InputList[i] THEN InputList[i].offers.list ELSE <<>>
AllPriced ==
    \A i \in DOMAIN InputList : \A j \in DOMAIN HotelOffers(i) :
        "total" \in DOMAIN HotelOffers(i)[j].price

\* C18: for an offers document in which every offer has a price total,
\* search_hotels returns its hotels in non-decreasing order of total price,
\* the totals compared as numbers.
C18_SortedByPrice ==
    (OpDone("search_hotels") /\ AllPriced) =>
        /\ "returned" \in DOMAIN ops.cur.out
        /\ LET hotels == ops.cur.out.returned.list IN
           \A i, j \in DOMAIN hotels :
               i < j => Decimal[hotels[i].price.total.str]
                           <= Decimal[hotels[j].price.total.str]

\* C18 happens: the document lists a hotel at 150 before one at 90, and the
\* result has the one at 90 first.
C18_Witness ==
    /\ Shaped("search_hotels")
    /\ Len(InputList) = 2
    /\ Len(HotelOffers(1)) = 1
    /\ HotelOffers(1)[1].price.total = Str("150")
    /\ Len(HotelOffers(2)) = 1
    /\ HotelOffers(2)[1].price.total = Str("90")
    /\ ops.cur.out.returned.list[1].hotel_id = Str("H2")
    /\ ops.cur.out.returned.list[1].price.total = Str("90")
    /\ ops.cur.out.returned.list[2].price.total = Str("150")

\* What the backend's offer holds, None where it holds nothing.
OfferId(offer) == IF "id" \in DOMAIN offer THEN offer.id ELSE None
OfferTotal(offer) ==
    IF "price" \in DOMAIN offer /\ "total" \in DOMAIN offer.price
    THEN offer.price.total ELSE None
OfferItineraries(offer) ==
    IF "itineraries" \in DOMAIN offer THEN offer.itineraries.list ELSE <<>>

RepeatsFirst ==
    /\ ops.cur.stage = "done"
    /\ ops.first # None
    /\ ops.cur.name = ops.first.name
    /\ ops.cur.max_results = ops.first.max_results
    /\ ops.cur.seen = ops.first.seen

Malformed(p) ==
    /\ tools.call[p].tool \in JsonTools
    /\ \E i \in DOMAIN tools.call[p].args : tools.call[p].args[i] \notin DOMAIN JsonValue

\* C21: a tool that takes JSON text calls its operation with the decoded
\* values of its arguments; when some argument is not JSON the invocation ends
\* with the decoding error, the operation is not called and the invoker has
\* sent no request, token or business, during the invocation.
C21_DecodedAtBoundary ==
    \A p \in Callers :
        LET c == tools.call[p] IN
        /\ c.stage = "in_operation" =>
               /\ ~Malformed(p)
               /\ ops.cur.name = c.tool
               /\ ops.cur.args = List([i \in DOMAIN c.args |-> JsonValue[c.args[i]]])
        /\ (Malformed(p) /\ c.stage # "idle") =>
               /\ pc[p] = "idle"
               /\ obs[p].sent = <<>>
        /\ (Malformed(p) /\ c.stage = "done") =>
               c.out = [raised |-> [exc |-> "JSONDecodeError"]]

\* A second invocation, on a client that already holds a token, whose first
\* argument is JSON and whose second is not, has ended.
C21_Witness ==
    LET c == tools.call[SingleCaller] IN
    /\ c.tool = "create_flight_order"
    /\ c.args[1] \in DOMAIN JsonValue
    /\ c.args[2] \notin DOMAIN JsonValue
    /\ c.stage = "done"
    /\ "raised" \in DOMAIN c.out
    /\ calls = 1
    /\ access_token # None
    /\ ops.cur.name = "get_flight_price"
    /\ ops.cur.args = List(<<[id |-> Str("1")]>>)

\* The invocations that have their client from the layer.
Holding(layer) ==
    {p \in Callers : tools.call[p].layer = layer /\ tools.call[p].stage = "have"}

\* C22: within a layer, under any interleaving of invocations, _get_client
\* constructs at most one AmadeusClient and every invocation receives that
\* same instance.
C22_OneClientPerLayer ==
    \A layer \in Layers :
        /\ tools.built[layer] <= 1
        /\ \A p \in Holding(layer) : tools.call[p].client = tools.held[layer]
        /\ \A p, q \in Holding(layer) : tools.call[p].client = tools.call[q].client

CancelOps == {"cancel_flight_order", "cancel_transfer"}

\* C23: cancel_flight_order and cancel_transfer return a message containing
\* "cancelled successfully" and the order id exactly when the result of
\* client.delete_request has status "success", as it has whenever the backend
\* answers 204; for any other result they return "Cancellation processed"
\* with that result.
C23_CancelMessage ==
    /\ \A p \in Callers :
          (pc[p] = "done" /\ IsDelete(frame[p].kind) /\ HasStatus(obs[p].api_reply)
             /\ obs[p].api_reply.status = NoContent) =>
          frame[p].result = [returned |-> [status |-> Str("success")]]
    /\ (ops.cur.stage = "done" /\ ops.cur.name \in CancelOps
          /\ "returned" \in DOMAIN ops.cur.seen[1]) =>
          LET result == ops.cur.seen[1].returned
              out == ops.cur.out
              success == "status" \in DOMAIN result /\ result.status = Str("success")
          IN /\ "returned" \in DOMAIN out
             /\ Contains(out.returned.message.str, "cancelled successfully") <=> success
             /\ success => /\ Contains(out.returned.message.str, OrderId)
                            /\ DOMAIN out.returned = {"message"}
             /\ ~success => out.returned =
                                [message |-> Str("Cancellation processed"),
                                 response |-> result]

\* cancel_transfer has returned its success message after cancel_flight_order
\* returned a body of the backend with "Cancellation processed".
C23_Witness ==
    /\ ops.cur.stage = "done"
    /\ ops.cur.name = "cancel_transfer"
    /\ ops.cur.seen = <<[returned |-> [status |-> Str("success")]]>>
    /\ "returned" \in DOMAIN ops.cur.out
    /\ Contains(ops.cur.out.returned.message.str, "Transfer " \o OrderId)
    /\ ops.first # None
    /\ ops.first.name = "cancel_flight_order"
    /\ ops.first.seen = <<[returned |-> [status |-> Str("CANCELLED")]]>>
    /\ "response" \in DOMAIN ops.first.out.returned

HotelListEndpoint == "/v1/reference-data/locations/hotels/by-city"

\* The hotels the hotel-list request of the search_hotels call returned.
ListedHotels ==
    LET r == ops.cur.seen[1].returned IN
    IF "data" \in DOMAIN r THEN r.data.list ELSE <<>>

ListReturned ==
    /\ ops.cur.name = "search_hotels"
    /\ ops.cur.seen # <<>>
    /\ "returned" \in DOMAIN ops.cur.seen[1]

\* While search_hotels waits for a request, it is the hotel-list request with
\* nothing received before it, or the offers request after the hotel list
\* has been returned.
ListBeforeOffers ==
    \A p \in Callers :
        (ops.cur.name = "search_hotels" /\ pc[p] # "idle") =>
            \/ /\ ops.cur.stage = "wait"
               /\ frame[p].endpoint = HotelListEndpoint
               /\ ops.cur.seen = <<>>
            \/ /\ ops.cur.stage = "wait_offers"
               /\ frame[p].endpoint = HotelOffersEndpoint
               /\ Len(ops.cur.seen) = 1
               /\ ListReturned

C25_AtMostMaxResults ==
    \A name \in {"search_hotels", "search_flights"} :
        Shaped(name) => Len(ops.cur.out.returned.list) <= ops.cur.max_results

\* get_nearest_airports has called client.request, which has not yet returned.
NearestAsked ==
    ops.cur.name = "get_nearest_airports" /\ ops.cur.stage = "wait"

\* C26: the radius get_nearest_airports sends is the smaller of the requested
\* radius and 500: never above 500, and the requested radius whenever that is
\* at most 500.
C26_RadiusCapped ==
    /\ NearestAsked =>
          (/\ ops.cur.held.radius.num <= 500
           /\ ops.cur.held.radius =
                 IF ops.cur.args.radius <= 500 THEN Num(ops.cur.args.radius)
                 ELSE Num(500))
    /\ \A p \in Callers :
          (ops.cur.name = "get_nearest_airports" /\ pc[p] # "idle") =>
              /\ frame[p].endpoint = "/v1/reference-data/locations/airports"
              /\ ops.cur.stage = "wait"

\* The request of a call with radius 501 has gone to the backend with a
\* radius of 500.
C26_Witness ==
    /\ NearestAsked
    /\ ops.cur.args.radius = 501
    /\ ops.cur.held.radius = Num(500)
    /\ pc[SingleCaller] = "wait"
    /\ Len(obs[SingleCaller].sent) = 2

\* The call of p has ended with an error of its Token Manager call.
FailedRefresh(p) == Raised(p) /\ ApiSends(p) = 0

\* C27: when the Token Manager call fails, for whatever reason, the token and
\* the expiry in the slot are what they were before the call, and the slot
\* holds no live token, so that the next Token Manager call asks for a new one.
C27_FailedRefreshLeavesSlot ==
    \A p \in Callers :
        FailedRefresh(p) =>
            /\ origin.token # frame[p].id
            /\ origin.expiry # frame[p].id
            /\ access_token = obs[p].checked.token
            /\ ~(access_token # None /\ token_expiry # None /\ now < token_expiry.at)

\* The token reply the call of p has just read gave a lifetime of at most the
\* safety margin.
GotShortLived(p) ==
    /\ pc[p] = "send"
    /\ obs[p].token_reply # None
    /\ obs[p].token_reply.body.encodes.expires_in.num <= 60

\* C28: with expires_in <= 60 the refresh succeeds and hands its token to the
\* caller, the stored expiry is not after the time of storing, and no call is
\* served from the cache while that expiry is in the slot.
C28_ShortLivedNeverCached ==
    \A p \in Callers :
        /\ GotShortLived(p) =>
              /\ frame[p].token = obs[p].token_reply.body.encodes.access_token
              /\ access_token = frame[p].token
              /\ token_expiry.at <= origin.at
        /\ (obs[p].check = "hit" /\ pc[p] = "return_cached") =>
              origin.expires_in.num > 60

\* A second call at the very instant a token of lifetime 60 was stored finds
\* the token in the slot and asks for a new one.
C28_Witness ==
    LET p == SingleCaller IN
    /\ pc[p] = "post"
    /\ frame[p].id = 2
    /\ obs[p].check = "miss"
    /\ obs[p].checked.token # None
    /\ origin.expires_in = Num(60)
    /\ origin.token = 1
    /\ origin.expiry = 1
    /\ now = origin.at

\* The hotels of the offers document that have at least one offer.
WithOffers == {i \in DOMAIN InputList : HotelOffers(i) # <<>>}

\* What an offer counts as when a hotel's offers are compared: its total as a
\* number, in hundredths, or 999999 when it has none.
Rank(offer) ==
    IF "total" \in DOMAIN offer.price THEN Decimal[offer.price.total.str]
    ELSE 99999900

\* The entry reports price, room type and id of the offer.
Reports(entry, offer) ==
    /\ entry.offer_id = offer.id
    /\ entry.room_type = offer.room.typeEstimated.category
    /\ entry.price.total =
          (IF "total" \in DOMAIN offer.price THEN offer.price.total ELSE None)

C30_UnpricedStillListed ==
    (OpDone("search_hotels") /\ ops.cur.seen # <<>>
       /\ "returned" \in DOMAIN ops.cur.seen[Len(ops.cur.seen)]
       /\ WithOffers # {}) =>
        /\ "returned" \in DOMAIN ops.cur.out
        /\ \A i \in WithOffers :
              \E n \in DOMAIN ops.cur.out.returned.list :
                 ops.cur.out.returned.list[n].hotel_id = InputList[i].hotel.hotelId

====
